---- MODULE Spec2Model ----
(***************************************************************************)
(* Model of BayesBoom/R/bayes.py: the prior-specification classes SdPrior, *)
(* NormalPrior, Ar1CoefficientPrior, MvnPrior and UniformPrior.            *)
(*                                                                         *)
(* Python objects are modelled by reference: an instance refers to its     *)
(* attribute mapping (__dict__) and a numpy array is a cell of an array    *)
(* store, so that two names for one mapping or one array are visible.      *)
(***************************************************************************)
EXTENDS Integers, Sequences, FiniteSets, TLC

(***************************************************************************)
(* Bounds of the model.                                                    *)
(***************************************************************************)
MaxVal == 2        \* numeric arguments are drawn from -MaxVal .. MaxVal
MaxAssign == 1     \* direct attribute assignments in one behaviour
MaxDim == 4        \* array dimensions are drawn from 2 .. MaxDim
MaxRank == 2       \* arrays have 0 .. MaxRank dimensions
MaxWrites == 1     \* element writes to arrays in one behaviour
MaxIdx == 1        \* element writes touch the first MaxIdx elements

(***************************************************************************)
(* Python values.  A number is the rational n/d tagged with its Python     *)
(* type; d = 0 is floating point infinity.  Every integer of the model is  *)
(* far below 2^53, so float() of it is exact in IEEE double precision.     *)
(***************************************************************************)
PyVal(t, n, d) == [t |-> t, n |-> n, d |-> d]
I(n) == PyVal("int", n, 1)
F(n) == PyVal("float", n, 1)
B(b) == PyVal("bool", IF b THEN 1 ELSE 0, 1)
None == PyVal("NoneType", 0, 1)

\* np.inf, the default of upper_limit
np_inf == PyVal("float", 1, 0)

\* .01, the default of sample_size
DefaultSampleSize == PyVal("float", 1, 100)

\* float(x)
PyFloat(x) == PyVal("float", x.n, x.d)

\* bool(x)
PyBool(x) == PyVal("bool", IF x.n = 0 THEN 0 ELSE 1, 1)

\* x == y on numbers (Python compares int, bool and float by value); used
\* by the properties to compare stored values
PyEq(x, y) == x.n * y.d = y.n * x.d

\* x < y on numbers
PyLt(x, y) == x.n * y.d < y.n * x.d

\* isinstance(x, float); used by the properties
IsFloatType(x) == x.t = "float"

ArithType(x, y) == IF x.t = "float" \/ y.t = "float" THEN "float" ELSE "int"

\* x * y
PyMul(x, y) == PyVal(ArithType(x, y), x.n * y.n, x.d * y.d)

\* x ** 2
PySquare(x) == PyVal(ArithType(x, x), x.n * x.n, x.d * x.d)

\* "initial_value is None"
IsNone_falsy(v) == v.n = 0
IsNone(v) == v = None

(***************************************************************************)
(* Attribute mappings.                                                     *)
(***************************************************************************)
EmptyDict == [a \in {} |-> None]

Has(self, names) == names \subseteq DOMAIN self

\* self.a = v on a plain attribute
Put(self, a, v) == [k \in (DOMAIN self) \cup {a} |-> IF k = a THEN v ELSE self[k]]

(***************************************************************************)
(* State.                                                                  *)
(***************************************************************************)
VARIABLES
    cls,        \* cls[o]: the class of instance o, "none" before construction
    dict,       \* dict[o]: which attribute mapping o.__dict__ refers to
    heap,       \* heap[d]: the contents of attribute mapping d
    captured,   \* the caller's variable holding the result of __getstate__
    nassign,    \* number of direct attribute assignments so far
    arrShape,   \* arrShape[a]: the shape of numpy array a
    arrData,    \* arrData[a]: the elements of numpy array a
    mvn,        \* the MvnPrior instance
    nwrites,    \* number of array element writes so far
    uni,        \* the UniformPrior instance
    last        \* the last call: what was given, returned, raised, forwarded

vars == <<cls, dict, heap, captured, nassign, arrShape, arrData, mvn, nwrites, uni, last>>

scalarVars == <<cls, dict, heap, captured, nassign>>
mvnVars == <<arrShape, arrData, mvn, nwrites>>

Objs == {"x", "y"}

NoCapture == [ref |-> "None", from |-> "None"]

\* The attributes instance o has now
Attrs(o) == heap[dict[o]]

Call(op, obj) ==
    [op |-> op, obj |-> obj, given |-> <<>>, ext |-> "none", args |-> <<>>,
     ret |-> None, exc |-> "none"]

NoCall == Call("none", "none")


ExtCall(ext, args) == [ext |-> ext, args |-> args, exc |-> "none"]
Raise(e) == [ext |-> "none", args |-> <<>>, exc |-> e]

(***************************************************************************)
(* SdPrior                                                                 *)
(***************************************************************************)
\* SdPrior.__init__: the attribute mapping it leaves
SdPrior_init_attrs(sigma_guess, sample_size, initial_value, fixed, upper_limit) ==
    LET iv == IF IsNone(initial_value) THEN sigma_guess ELSE initial_value
    IN  [sigma_guess |-> PyFloat(sigma_guess),
         sample_size |-> PyFloat(sample_size),
         initial_value |-> PyFloat(iv),
         fixed |-> PyBool(fixed),
         upper_limit |-> PyFloat(upper_limit)]

\* SdPrior.sum_of_squares: a property, so the class attribute is found before
\* any entry of the instance mapping
SdPrior_sum_of_squares_stored(self) ==
    IF Has(self, {"sum_of_squares"})
    THEN [ret |-> self.sum_of_squares, exc |-> "none"]
    ELSE IF Has(self, {"sigma_guess", "sample_size"})
         THEN [ret |-> PyMul(PySquare(self.sigma_guess), self.sample_size), exc |-> "none"]
         ELSE [ret |-> None, exc |-> "AttributeError"]
SdPrior_sum_of_squares(self) ==
    IF Has(self, {"sigma_guess", "sample_size"})
    THEN [ret |-> PyMul(PySquare(self.sigma_guess), self.sample_size), exc |-> "none"]
    ELSE [ret |-> None, exc |-> "AttributeError"]

\* SdPrior.create_chisq_model
SdPrior_create_chisq_model_swapped(self) ==
    IF Has(self, {"sample_size", "sigma_guess"})
    THEN ExtCall("ChisqModel", <<self.sigma_guess, self.sample_size>>)
    ELSE Raise("AttributeError")
SdPrior_create_chisq_model_call(self) ==
    IF Has(self, {"sample_size", "sigma_guess"})
    THEN ExtCall("ChisqModel", <<self.sample_size, self.sigma_guess>>)
    ELSE Raise("AttributeError")

\* SdPrior.boom
SdPrior_boom_call(self) ==
    IF Has(self, {"sample_size", "sigma_guess"})
    THEN ExtCall("ChisqModel", <<self.sample_size, self.sigma_guess>>)
    ELSE Raise("AttributeError")

(***************************************************************************)
(* NormalPrior                                                             *)
(***************************************************************************)
\* NormalPrior.__init__
NormalPrior_init_attrs(mu, sigma, initial_value) ==
    [mu |-> PyFloat(mu),
     sigma |-> PyFloat(sigma),
     initial_value |-> IF IsNone(initial_value) THEN mu ELSE PyFloat(initial_value)]

\* NormalPrior.boom
NormalPrior_boom_call(self) ==
    IF Has(self, {"mu", "sigma"})
    THEN ExtCall("GaussianModel", <<self.mu, self.sigma>>)
    ELSE Raise("AttributeError")

(***************************************************************************)
(* Ar1CoefficientPrior                                                     *)
(***************************************************************************)
\* Ar1CoefficientPrior.__init__
Ar1CoefficientPrior_init_attrs(mu, sigma, force_stationary, force_positive, initial_value) ==
    [mu |-> mu,
     sigma |-> sigma,
     force_stationary |-> force_stationary,
     force_positive |-> force_positive,
     initial_value |-> IF IsNone(initial_value) THEN mu ELSE initial_value]

\* Ar1CoefficientPrior.boom
Ar1CoefficientPrior_boom_truncating(self) ==
    IF Has(self, {"mu", "sigma"})
    THEN IF Has(self, {"force_positive"}) /\ self.force_positive.n # 0 /\ self.mu.n < 0
         THEN ExtCall("GaussianModel", <<PyVal(self.mu.t, 0, 1), self.sigma>>)
         ELSE ExtCall("GaussianModel", <<self.mu, self.sigma>>)
    ELSE Raise("AttributeError")
Ar1CoefficientPrior_boom_call(self) ==
    IF Has(self, {"mu", "sigma"})
    THEN ExtCall("GaussianModel", <<self.mu, self.sigma>>)
    ELSE Raise("AttributeError")

(***************************************************************************)
(* __getstate__ / __setstate__ (the same code in the three classes)        *)
(***************************************************************************)
\* __getstate__: return self.__dict__
getstate(o) == dict[o]

\* __setstate__: self.__dict__ = payload
setstate_update(o, payload) ==
    [dict |-> dict,
     heap |-> [heap EXCEPT ![dict[o]] =
                  [k \in (DOMAIN @) \cup (DOMAIN heap[payload]) |->
                      IF k \in DOMAIN heap[payload] THEN heap[payload][k] ELSE @[k]]]]
setstate(o, payload) ==
    [dict |-> [dict EXCEPT ![o] = payload],
     heap |-> heap]

\* The names a class defines with @property and no setter
Properties(c) ==
    CASE c = "SdPrior" -> {"sum_of_squares"}
      [] c = "NormalPrior" -> {"mean", "sd", "variance"}
      [] OTHER -> {}

(***************************************************************************)
(* Operations on the scalar priors.                                        *)
(***************************************************************************)
Construct(o, c, self, given) ==
    /\ cls[o] = "none"
    /\ cls' = [cls EXCEPT ![o] = c]
    /\ dict' = [dict EXCEPT ![o] = o]
    /\ heap' = [heap EXCEPT ![o] = self]
    /\ last' = [Call(c \o ".__init__", o) EXCEPT !.given = given]
    /\ UNCHANGED <<captured, nassign, mvnVars, uni>>

SdPrior_init(o, sigma_guess, sample_size, initial_value, fixed, upper_limit) ==
    Construct(o, "SdPrior",
              SdPrior_init_attrs(sigma_guess, sample_size, initial_value, fixed, upper_limit),
              <<sigma_guess, sample_size, initial_value, fixed, upper_limit>>)

NormalPrior_init(o, mu, sigma, initial_value) ==
    Construct(o, "NormalPrior",
              NormalPrior_init_attrs(mu, sigma, initial_value),
              <<mu, sigma, initial_value>>)

Ar1CoefficientPrior_init(o, mu, sigma, force_stationary, force_positive, initial_value) ==
    Construct(o, "Ar1CoefficientPrior",
              Ar1CoefficientPrior_init_attrs(mu, sigma, force_stationary, force_positive,
                                             initial_value),
              <<mu, sigma, force_stationary, force_positive, initial_value>>)

\* o.a = v, written by a caller
SetAttr(o, a, v) ==
    /\ cls[o] # "none"
    /\ nassign < MaxAssign
    /\ nassign' = nassign + 1
    /\ IF a \in Properties(cls[o])
       THEN /\ last' = [Call("setattr", o) EXCEPT !.given = <<v>>, !.exc = "AttributeError"]
            /\ heap' = heap
       ELSE /\ last' = [Call("setattr", o) EXCEPT !.given = <<v>>]
            /\ heap' = [heap EXCEPT ![dict[o]] = Put(@, a, v)]
    /\ UNCHANGED <<cls, dict, captured, mvnVars, uni>>

\* s = o.__getstate__()
GetState(o) ==
    /\ cls[o] # "none"
    /\ captured' = [ref |-> getstate(o), from |-> o]
    /\ last' = Call("__getstate__", o)
    /\ UNCHANGED <<cls, dict, heap, nassign, mvnVars, uni>>

\* o.__setstate__(s)
SetState(o) ==
    /\ cls[o] # "none"
    /\ captured # NoCapture
    /\ dict' = setstate(o, captured.ref).dict
    /\ heap' = setstate(o, captured.ref).heap
    /\ last' = Call("__setstate__", o)
    /\ UNCHANGED <<cls, captured, nassign, mvnVars, uni>>

\* A conversion or accessor call on o: nothing but the call record changes
Observe(o, c, op, r) ==
    /\ cls[o] = c
    /\ last' = [Call(op, o) EXCEPT !.ext = r.ext, !.args = r.args, !.exc = r.exc]
    /\ UNCHANGED <<scalarVars, mvnVars, uni>>

SdPrior_create_chisq_model(o) ==
    Observe(o, "SdPrior", "SdPrior.create_chisq_model",
            SdPrior_create_chisq_model_call(Attrs(o)))

SdPrior_boom(o) ==
    Observe(o, "SdPrior", "SdPrior.boom", SdPrior_boom_call(Attrs(o)))

NormalPrior_boom(o) ==
    Observe(o, "NormalPrior", "NormalPrior.boom", NormalPrior_boom_call(Attrs(o)))

Ar1CoefficientPrior_boom(o) ==
    Observe(o, "Ar1CoefficientPrior", "Ar1CoefficientPrior.boom",
            Ar1CoefficientPrior_boom_call(Attrs(o)))

\* reading o.sum_of_squares
Read_sum_of_squares(o) ==
    /\ cls[o] = "SdPrior"
    /\ last' = [Call("SdPrior.sum_of_squares", o) EXCEPT
                    !.ret = SdPrior_sum_of_squares(Attrs(o)).ret,
                    !.exc = SdPrior_sum_of_squares(Attrs(o)).exc]
    /\ UNCHANGED <<scalarVars, mvnVars, uni>>

(***************************************************************************)
(* MvnPrior.  The caller's numpy arrays live in the array store; a value   *)
(* of type "ndarray" is a reference into it.                               *)
(***************************************************************************)
Arrays == {1, 2}

Ref(a) == PyVal("ndarray", a, 1)

RECURSIVE Product(_)
Product(shape) == IF shape = <<>> THEN 1 ELSE Head(shape) * Product(Tail(shape))

\* arr.size
Size(a) == Product(arrShape[a])

NoMvn == [built |-> FALSE, mu |-> None, Sigma |-> None]

\* The checks of MvnPrior.__init__: the message raised, "none" when all pass.
\* len(mu) of a one-dimensional array is mu.shape[0].
MvnPrior_check_matrix_first(muShape, SigmaShape) ==
    IF Len(SigmaShape) # 2 THEN "Sigma must be a matrix."
    ELSE IF Len(muShape) # 1 THEN "mu must be a vector."
    ELSE IF SigmaShape[1] # SigmaShape[2] THEN "Sigma must be symmetric"
    ELSE IF SigmaShape[1] # muShape[1] THEN "mu and Sigma must be the same dimension."
    ELSE "none"
MvnPrior_check(muShape, SigmaShape) ==
    IF Len(muShape) # 1 THEN "mu must be a vector."
    ELSE IF Len(SigmaShape) # 2 THEN "Sigma must be a matrix."
    ELSE IF SigmaShape[1] # SigmaShape[2] THEN "Sigma must be symmetric"
    ELSE IF SigmaShape[1] # muShape[1] THEN "mu and Sigma must be the same dimension."
    ELSE "none"

\* MvnPrior(mu, Sigma) with the caller's arrays m and S
MvnPrior_init(m, S) ==
    /\ ~mvn.built
    /\ LET exc == MvnPrior_check(arrShape[m], arrShape[S])
       IN  /\ last' = [Call("MvnPrior.__init__", "mvn") EXCEPT
                           !.given = <<Ref(m), Ref(S)>>, !.exc = exc]
           /\ mvn' = IF exc = "none"
                     THEN [built |-> TRUE, mu |-> Ref(m), Sigma |-> Ref(S)]
                     ELSE mvn
    /\ UNCHANGED <<scalarVars, arrShape, arrData, nwrites, uni>>

WriteElem(a, i, v) ==
    /\ nwrites < MaxWrites
    /\ nwrites' = nwrites + 1
    /\ arrData' = [arrData EXCEPT ![a][i] = v]
    /\ UNCHANGED <<scalarVars, arrShape, mvn, uni>>

\* The caller writes an element of one of its own arrays: arr.flat[i] = v
CallerWrite(a, i, v) ==
    /\ i <= Size(a)
    /\ WriteElem(a, i, v)
    /\ last' = [Call("caller.write", "caller") EXCEPT !.given = <<Ref(a), v>>]

\* The caller writes through an accessor: prior.mu.flat[i] = v.  The accessor
\* returns self._mu itself.
AccessorWrite_mu(i, v) ==
    /\ mvn.built
    /\ i <= Size(mvn.mu.n)
    /\ WriteElem(mvn.mu.n, i, v)
    /\ last' = [Call("MvnPrior.mu.write", "mvn") EXCEPT !.given = <<v>>]

\* prior.Sigma.flat[i] = v
AccessorWrite_Sigma(i, v) ==
    /\ mvn.built
    /\ i <= Size(mvn.Sigma.n)
    /\ WriteElem(mvn.Sigma.n, i, v)
    /\ last' = [Call("MvnPrior.Sigma.write", "mvn") EXCEPT !.given = <<v>>]

\* prior.mu = v or prior.Sigma = v: the properties have no setter
PropertyAssign(v) ==
    /\ mvn.built
    /\ last' = [Call("MvnPrior.setattr", "mvn") EXCEPT
                    !.given = <<v>>, !.exc = "AttributeError"]
    /\ UNCHANGED <<scalarVars, mvnVars, uni>>

\* What the prior holds: the elements of the arrays _mu and _Sigma refer to
Held == <<arrData[mvn.mu.n], arrData[mvn.Sigma.n]>>

\* MvnPrior.boom: boom.Vector and boom.SpdMatrix copy the elements
MvnPrior_boom ==
    /\ mvn.built
    /\ last' = [Call("MvnPrior.boom", "mvn") EXCEPT !.ext = "MvnModel", !.args = Held]
    /\ UNCHANGED <<scalarVars, mvnVars, uni>>

(***************************************************************************)
(* UniformPrior                                                            *)
(***************************************************************************)
NoUniform == [built |-> FALSE, lo |-> None, hi |-> None]

\* UniformPrior.__init__
UniformPrior_init_noswap(lo, hi) ==
    [built |-> TRUE, lo |-> lo, hi |-> hi]
UniformPrior_init_attrs(lo, hi) ==
    IF PyLt(hi, lo)
    THEN [built |-> TRUE, lo |-> hi, hi |-> lo]
    ELSE [built |-> TRUE, lo |-> lo, hi |-> hi]

UniformPrior_init(lo, hi) ==
    /\ ~uni.built
    /\ uni' = UniformPrior_init_attrs(lo, hi)
    /\ last' = [Call("UniformPrior.__init__", "uni") EXCEPT !.given = <<lo, hi>>]
    /\ UNCHANGED <<scalarVars, mvnVars>>

\* UniformPrior.boom
UniformPrior_boom_call(self) == ExtCall("UniformModel", <<self.lo, self.hi>>)

UniformPrior_boom ==
    /\ uni.built
    /\ last' = [Call("UniformPrior.boom", "uni") EXCEPT
                    !.ext = UniformPrior_boom_call(uni).ext,
                    !.args = UniformPrior_boom_call(uni).args]
    /\ UNCHANGED <<scalarVars, mvnVars, uni>>

(***************************************************************************)
(* Argument sets.                                                          *)
(***************************************************************************)
Nums(S) == {I(n) : n \in S} \cup {F(n) : n \in S}

Signed == {-MaxVal, 0, MaxVal}

Flags == {B(TRUE), B(FALSE)}

\* the value a caller assigns, unlike any constructor argument
AssignVals == {I(MaxVal + 1)}

ElemVals == {F(1)}

RECURSIVE ShapesOfRank(_)
ShapesOfRank(r) ==
    IF r = 0 THEN {<<>>}
    ELSE {<<d>> \o s : d \in 2..MaxDim, s \in ShapesOfRank(r - 1)}

Shapes == UNION {ShapesOfRank(r) : r \in 0..MaxRank}

Zeros(shape) == [i \in 1..Product(shape) |-> F(0)]

(***************************************************************************)
(* Specifications.                                                         *)
(***************************************************************************)
InitScalar ==
    /\ cls = [o \in Objs |-> "none"]
    /\ dict = [o \in Objs |-> o]
    /\ heap = [o \in Objs |-> EmptyDict]
    /\ captured = NoCapture
    /\ nassign = 0

InitNoArrays ==
    /\ arrShape = [a \in Arrays |-> <<>>]
    /\ arrData = [a \in Arrays |-> Zeros(<<>>)]
    /\ mvn = NoMvn
    /\ nwrites = 0

Init ==
    /\ InitScalar
    /\ InitNoArrays
    /\ uni = NoUniform
    /\ last = NoCall

\* What a caller can do with an instance whatever its class
Common(o) ==
    \/ \E a \in (DOMAIN Attrs(o)) \cup {"sum_of_squares"}, v \in AssignVals : SetAttr(o, a, v)
    \/ GetState(o)
    \/ SetState(o)
    \/ SdPrior_create_chisq_model(o)
    \/ SdPrior_boom(o)
    \/ Read_sum_of_squares(o)
    \/ NormalPrior_boom(o)
    \/ Ar1CoefficientPrior_boom(o)

\* One instance, constructed from a wide range of arguments
NextCtor ==
    \/ \E sigma_guess \in Nums(Signed), sample_size \in {DefaultSampleSize, I(MaxVal + 1)},
          initial_value \in {None} \cup Nums(Signed), fixed \in Flags \cup {I(1)},
          upper_limit \in {np_inf, I(MaxVal)} :
            SdPrior_init("x", sigma_guess, sample_size, initial_value, fixed, upper_limit)
    \/ \E mu \in Nums(Signed), sigma \in {I(1), F(MaxVal)},
          initial_value \in {None} \cup Nums(Signed) :
            NormalPrior_init("x", mu, sigma, initial_value)
    \/ \E mu \in Nums(Signed), sigma \in {I(1), F(MaxVal)},
          force_stationary \in Flags, force_positive \in Flags,
          initial_value \in {None} \cup Nums(Signed) :
            Ar1CoefficientPrior_init("x", mu, sigma, force_stationary, force_positive,
                                     initial_value)
    \/ Common("x")

SpecCtor == Init /\ [][NextCtor]_vars

\* Two instances, x and y, which may come to share state
NextShare ==
    \E o \in Objs :
        \/ \E sigma_guess \in {I(MaxVal)}, sample_size \in {DefaultSampleSize, I(MaxVal + 1)} :
              SdPrior_init(o, sigma_guess, sample_size, None, B(FALSE), np_inf)
        \/ NormalPrior_init(o, F(MaxVal), F(1), None)
        \/ \E force_stationary \in Flags, force_positive \in Flags,
              initial_value \in {None, I(0)} :
                Ar1CoefficientPrior_init(o, I(-MaxVal), I(1), force_stationary,
                                         force_positive, initial_value)
        \/ Common(o)

SpecShare == Init /\ [][NextShare]_vars

InitMvn ==
    /\ InitScalar
    /\ arrShape \in [Arrays -> Shapes]
    /\ arrData = [a \in Arrays |-> Zeros(arrShape[a])]
    /\ mvn = NoMvn
    /\ nwrites = 0
    /\ uni = NoUniform
    /\ last = NoCall

NextMvn ==
    \/ \E m \in Arrays, S \in Arrays : MvnPrior_init(m, S)
    \/ \E a \in Arrays, i \in 1..MaxIdx, v \in ElemVals : CallerWrite(a, i, v)
    \/ \E i \in 1..MaxIdx, v \in ElemVals : AccessorWrite_mu(i, v)
    \/ \E i \in 1..MaxIdx, v \in ElemVals : AccessorWrite_Sigma(i, v)
    \/ \E v \in ElemVals : PropertyAssign(v)
    \/ MvnPrior_boom

SpecMvn == InitMvn /\ [][NextMvn]_vars

NextUniform ==
    \/ \E lo \in Nums(-MaxVal..MaxVal), hi \in Nums(-MaxVal..MaxVal) : UniformPrior_init(lo, hi)
    \/ UniformPrior_boom

SpecUniform == Init /\ [][NextUniform]_vars

(***************************************************************************)
(* Properties.                                                             *)
(***************************************************************************)

\* C1: MvnPrior(mu, Sigma) succeeds exactly when mu has one dimension, Sigma
\* has two, Sigma is square and its dimension is len(mu); otherwise it raises
\* the message of the first violated check in that order and stores nothing.
C1_MvnValidation ==
    last.op = "MvnPrior.__init__" =>
        LET m == arrShape[last.given[1].n]
            S == arrShape[last.given[2].n]
            valid == Len(m) = 1 /\ Len(S) = 2 /\ S[1] = S[2] /\ S[1] = m[1]
        IN  /\ (last.exc = "none") <=> valid
            /\ valid => mvn = [built |-> TRUE, mu |-> last.given[1], Sigma |-> last.given[2]]
            /\ ~valid => mvn = NoMvn
            /\ Len(m) # 1 => last.exc = "mu must be a vector."
            /\ (Len(m) = 1 /\ Len(S) # 2) => last.exc = "Sigma must be a matrix."
            /\ (Len(m) = 1 /\ Len(S) = 2 /\ S[1] # S[2]) =>
                   last.exc = "Sigma must be symmetric"
            /\ (Len(m) = 1 /\ Len(S) = 2 /\ S[1] = S[2] /\ S[1] # m[1]) =>
                   last.exc = "mu and Sigma must be the same dimension."

\* A constructor call in which both the vector check and the matrix check are
\* violated, and the vector check is the one reported
C1_Witness ==
    /\ last.op = "MvnPrior.__init__"
    /\ Len(arrShape[last.given[1].n]) = 2
    /\ Len(arrShape[last.given[2].n]) = 1
    /\ last.exc = "mu must be a vector."
    /\ mvn = NoMvn

\* C2: UniformPrior(lo, hi) raises nothing and stores the two inputs with
\* lo <= hi: swapped when hi < lo, unchanged otherwise; boom() passes the
\* stored pair as (lower, upper).
C2_UniformBounds ==
    /\ uni.built => ~PyLt(uni.hi, uni.lo)
    /\ last.op = "UniformPrior.__init__" =>
        /\ last.exc = "none"
        /\ uni.built
        /\ IF PyLt(last.given[2], last.given[1])
           THEN uni.lo = last.given[2] /\ uni.hi = last.given[1]
           ELSE uni.lo = last.given[1] /\ uni.hi = last.given[2]
    /\ last.op = "UniformPrior.boom" =>
        /\ last.ext = "UniformModel"
        /\ last.args = <<uni.lo, uni.hi>>

\* A construction with reversed bounds, stored swapped
C2_Witness ==
    /\ last.op = "UniformPrior.__init__"
    /\ PyLt(last.given[2], last.given[1])
    /\ uni.lo = last.given[2]
    /\ uni.hi = last.given[1]

\* C3: without initial_value (or with None) the stored initial_value equals
\* the stored sigma_guess (SdPrior) or mu (NormalPrior, Ar1CoefficientPrior);
\* an explicit initial_value, 0 included, is the one stored.
C3_DefaultInitialValue ==
    /\ last.op = "SdPrior.__init__" =>
        IF last.given[3] = None
        THEN PyEq(Attrs(last.obj).initial_value, Attrs(last.obj).sigma_guess)
        ELSE PyEq(Attrs(last.obj).initial_value, last.given[3])
    /\ last.op = "NormalPrior.__init__" =>
        IF last.given[3] = None
        THEN PyEq(Attrs(last.obj).initial_value, Attrs(last.obj).mu)
        ELSE PyEq(Attrs(last.obj).initial_value, last.given[3])
    /\ last.op = "Ar1CoefficientPrior.__init__" =>
        IF last.given[5] = None
        THEN PyEq(Attrs(last.obj).initial_value, Attrs(last.obj).mu)
        ELSE PyEq(Attrs(last.obj).initial_value, last.given[5])

\* An SdPrior constructed with initial_value = 0 and a non-zero sigma_guess
C3_Witness ==
    /\ last.op = "SdPrior.__init__"
    /\ last.given[3] = I(0)
    /\ Attrs(last.obj).initial_value = F(0)
    /\ ~PyEq(Attrs(last.obj).sigma_guess, F(0))

\* C4: __setstate__ with the state captured from x leaves the restored
\* object with exactly the attribute names and values of x.
C4_RoundTrip ==
    last.op = "__setstate__" => Attrs(last.obj) = Attrs(captured.from)

\* A NormalPrior or Ar1CoefficientPrior restored from the state of an SdPrior
C4_Witness ==
    /\ last.op = "__setstate__"
    /\ last.obj # captured.from
    /\ cls[captured.from] = "SdPrior"
    /\ cls[last.obj] # "SdPrior"
    /\ DOMAIN Attrs(last.obj) =
           {"sigma_guess", "sample_size", "initial_value", "fixed", "upper_limit"}

\* C5: sum_of_squares is always the current sigma_guess squared times the
\* current sample_size, whatever was assigned or restored, and whatever the
\* attribute mapping holds under the name sum_of_squares.
C5_SumOfSquares ==
    /\ \A o \in Objs :
        (cls[o] = "SdPrior" /\ Has(Attrs(o), {"sigma_guess", "sample_size"})) =>
            /\ SdPrior_sum_of_squares(Attrs(o)).exc = "none"
            /\ SdPrior_sum_of_squares(Attrs(o)).ret =
                   PyMul(PyMul(Attrs(o).sigma_guess, Attrs(o).sigma_guess),
                         Attrs(o).sample_size)
    /\ (last.op = "SdPrior.sum_of_squares" /\ last.exc = "none") =>
        /\ Has(Attrs(last.obj), {"sigma_guess", "sample_size"})
        /\ last.ret = PyMul(PyMul(Attrs(last.obj).sigma_guess, Attrs(last.obj).sigma_guess),
                            Attrs(last.obj).sample_size)

\* sum_of_squares read from an SdPrior after sigma_guess was assigned a new
\* value through an instance sharing its state
C5_Witness ==
    /\ last.op = "SdPrior.sum_of_squares"
    /\ last.exc = "none"
    /\ dict["x"] = dict["y"]
    /\ Attrs(last.obj).sigma_guess = I(MaxVal + 1)
    /\ last.ret = PyVal("float", (MaxVal + 1) * (MaxVal + 1), 100)

\* C6: each conversion forwards the currently stored hyperparameters in the
\* documented order: ChisqModel(sample_size, sigma_guess) from SdPrior,
\* GaussianModel(mu, sigma) from NormalPrior and Ar1CoefficientPrior; and
\* create_chisq_model() and boom() of SdPrior make the same call.
C6_ConversionArguments ==
    /\ (last.op \in {"SdPrior.boom", "SdPrior.create_chisq_model"} /\ last.exc = "none") =>
        /\ last.ext = "ChisqModel"
        /\ last.args = <<Attrs(last.obj).sample_size, Attrs(last.obj).sigma_guess>>
    /\ (last.op \in {"NormalPrior.boom", "Ar1CoefficientPrior.boom"} /\ last.exc = "none") =>
        /\ last.ext = "GaussianModel"
        /\ last.args = <<Attrs(last.obj).mu, Attrs(last.obj).sigma>>
    /\ \A o \in Objs :
        cls[o] = "SdPrior" =>
            SdPrior_create_chisq_model_call(Attrs(o)) = SdPrior_boom_call(Attrs(o))

\* create_chisq_model() after sample_size was assigned a new value
C6_Witness ==
    /\ last.op = "SdPrior.create_chisq_model"
    /\ last.exc = "none"
    /\ nassign = 1
    /\ last.args[1] = I(MaxVal + 1)
    /\ last.args[2] # last.args[1]

\* C7: Ar1CoefficientPrior stores its flags and hyperparameters as given,
\* checks nothing, and two instances with the same mu and sigma forward the
\* same arguments whatever their flags and initial_value.
C7_FlagsIgnored ==
    /\ last.op = "Ar1CoefficientPrior.__init__" =>
        /\ last.exc = "none"
        /\ Attrs(last.obj).mu = last.given[1]
        /\ Attrs(last.obj).sigma = last.given[2]
        /\ Attrs(last.obj).force_stationary = last.given[3]
        /\ Attrs(last.obj).force_positive = last.given[4]
    /\ \A o1 \in Objs, o2 \in Objs :
        (/\ cls[o1] = "Ar1CoefficientPrior"
         /\ cls[o2] = "Ar1CoefficientPrior"
         /\ Has(Attrs(o1), {"mu", "sigma"})
         /\ Has(Attrs(o2), {"mu", "sigma"})
         /\ Attrs(o1).mu = Attrs(o2).mu
         /\ Attrs(o1).sigma = Attrs(o2).sigma) =>
            Ar1CoefficientPrior_boom_call(Attrs(o1)) = Ar1CoefficientPrior_boom_call(Attrs(o2))
    /\ (last.op = "Ar1CoefficientPrior.boom" /\ last.exc = "none") =>
        last.args = <<Attrs(last.obj).mu, Attrs(last.obj).sigma>>

\* Two priors with a negative mu outside (-1, 1), one with both flags set
\* and one with neither, and with different initial values, after a
\* conversion of the first
C7_Witness ==
    /\ cls["x"] = "Ar1CoefficientPrior"
    /\ cls["y"] = "Ar1CoefficientPrior"
    /\ dict["x"] # dict["y"]
    /\ Has(Attrs("x"), {"force_stationary", "force_positive"})
    /\ Has(Attrs("y"), {"force_stationary", "force_positive"})
    /\ Attrs("x").force_stationary = B(TRUE)
    /\ Attrs("x").force_positive = B(TRUE)
    /\ Attrs("y").force_stationary = B(FALSE)
    /\ Attrs("y").force_positive = B(FALSE)
    /\ Attrs("x").mu = I(-MaxVal)
    /\ Attrs("y").mu = I(-MaxVal)
    /\ Attrs("x").initial_value # Attrs("y").initial_value
    /\ last.op = "Ar1CoefficientPrior.boom"
    /\ last.obj = "x"
    /\ last.args = <<I(-MaxVal), I(1)>>

\* C8: after construction every numeric hyperparameter is stored as a
\* float, a defaulted initial_value included.
C8_StoredAsFloat ==
    /\ last.op = "SdPrior.__init__" =>
        \A a \in {"sigma_guess", "sample_size", "initial_value", "upper_limit"} :
            IsFloatType(Attrs(last.obj)[a])
    /\ last.op \in {"NormalPrior.__init__", "Ar1CoefficientPrior.__init__"} =>
        \A a \in {"mu", "sigma", "initial_value"} : IsFloatType(Attrs(last.obj)[a])

\* C9: once an MvnPrior is constructed, nothing done outside it changes the
\* values it holds.
C9_OwnsData ==
    [][mvn.built => (mvn' = mvn /\ Held' = Held)]_vars

\* C10: after s = capture(x) and restore(y, s), an attribute assignment on
\* one instance leaves the other instances and the contents of s unchanged.
C10_IndependentSnapshot ==
    [][(/\ last'.op = "setattr"
        /\ captured # NoCapture
        /\ \E y \in Objs \ {captured.from} : dict[y] = captured.ref) =>
           (/\ \A p \in Objs \ {last'.obj} : Attrs(p)' = Attrs(p)
            /\ heap'[captured.ref] = heap[captured.ref])]_vars

====
